---- MODULE Spec2Model ----
(***************************************************************************)
(* A model of bsd/copy.py: copytree(src, dst, symlinks, progress_callback, *)
(* xattr, xattr_filter, xattr_error_callback, exclude, error_cb).          *)
(*                                                                         *)
(* The walk is depth first and single threaded.  The model keeps the call  *)
(* stack of copytree invocations explicitly; one action is one pass of the *)
(* "for name in names" loop body (with its except clauses), and one action *)
(* is the code after the loop (copystat, raise) of the innermost frame.    *)
(* Every filesystem or extattr call may fail with an OSError, either       *)
(* because the destination tree makes it fail or because the environment   *)
(* injects a fault.                                                        *)
(***************************************************************************)
EXTENDS Naturals, Sequences, FiniteSets, TLC

VARIABLES
    py3,      \* whether shutil.Error is a subclass of OSError, as it is in
              \* Python 3 and is not in Python 2: "yes", "no", or "unknown"
              \* until the first shutil.Error reaches an except clause
    top,      \* the arguments of the outermost call
    stack,    \* the copytree invocations in progress, innermost last
    dstfs,    \* the destination filesystem: path -> node
    trace,    \* every collaborator and callback call made, in order
    failed,   \* the calls that raised OSError, in order
    injected, \* number of faults injected by the environment so far
    result    \* outcome of the outermost call

vars == <<py3, top, stack, dstfs, trace, failed, injected, result>>

(***************************************************************************)
(* Bounds of the model.                                                    *)
(***************************************************************************)
\* at most this many calls are made to fail by the environment in one run
MaxFaults == 1

(***************************************************************************)
(* Paths.  A path string is modelled by the tree it lives in and the names *)
(* below that tree's root; os.path.join appends one name.                  *)
(***************************************************************************)
SrcP(p) == [fs |-> "src", p |-> p]
DstP(p) == [fs |-> "dst", p |-> p]
NoPath == [fs |-> "", p |-> <<>>]
join(path, name) == [path EXCEPT !.p = Append(@, name)]
basename(path) == IF path.p = <<>> THEN "" ELSE path.p[Len(path.p)]
dirname(path) == [path EXCEPT !.p = SubSeq(@, 1, Len(@) - 1)]

(***************************************************************************)
(* The source tree.  Extended attributes are <<namespace, name, value>>.   *)
(***************************************************************************)
\* stat stands for mode, flags and timestamps: the source path they come from
Node(kind, content, linkto, res, ea) ==
    [kind |-> kind, content |-> content, linkto |-> linkto, res |-> res,
     ea |-> ea, stat |-> <<"new">>]
DirNode == Node("dir", "", "", <<>>, {})
FileNode(content, ea) == Node("file", content, "", <<>>, ea)
\* res is the source path the target string leads to
LinkNode(linkto, res) == Node("link", "", linkto, res, {})

SrcTree ==
    (<<>>                    :> DirNode)
 @@ (<<"a">>                 :> FileNode("hi", {<<"user", "k1", "v1">>,
                                                <<"user", "k2", "v2">>}))
 @@ (<<"b">>                 :> FileNode("bye", {}))
 @@ (<<"l">>                 :> LinkNode("a", <<"a">>))
 @@ (<<"sub">>               :> DirNode)
 @@ (<<"sub", "deep">>       :> DirNode)
 @@ (<<"sub", "deep", "d">>  :> FileNode("dee", {<<"system", "k3", "v3">>}))
 @@ (<<"sub", "m">>          :> LinkNode("deep", <<"sub", "deep">>))

\* the order in which os.listdir and extattr.list yield names
NameOrder == <<"a", "b", "d", "deep", "l", "m", "sub",
               "k1", "k2", "k3">>

Last(s) == s[Len(s)]
Front(s) == SubSeq(s, 1, Len(s) - 1)
Range(s) == {s[i] : i \in 1..Len(s)}

\* the real source path of p, every symbolic link on the way followed
RECURSIVE realpath(_)
realpath(p) ==
    IF p = <<>> THEN <<>>
    ELSE LET q == Append(realpath(Front(p)), Last(p))
         IN IF SrcTree[q].kind = "link" THEN realpath(SrcTree[q].res) ELSE q

\* the node lstat sees: links in the directory part followed, the last name not
lnode(path) ==
    IF path.p = <<>> THEN SrcTree[<<>>]
    ELSE SrcTree[Append(realpath(Front(path.p)), Last(path.p))]
\* the node stat sees
snode(path) == SrcTree[realpath(path.p)]

islink(path) == lnode(path).kind = "link"
isfile(path) == snode(path).kind = "file"
isdir(path) == snode(path).kind = "dir"
readlink(path) == lnode(path).linkto

InOrder(S) == SelectSeq(NameOrder, LAMBDA n : n \in S)

\* os.listdir(path)
listdir(path) ==
    LET d == realpath(path.p)
    IN InOrder({n \in Range(NameOrder) : Append(d, n) \in DOMAIN SrcTree})

(***************************************************************************)
(* Calls.  One record per call of a collaborator or of a callback:         *)
(* which call, the paths, the attribute namespace and name it was given,   *)
(* for a callback the other argument values, and for a failed makedirs the *)
(* errno of its OSError (the one errno the code reads).                    *)
(***************************************************************************)
None == "<None>"
Ev(op, src, dst, ns, ea) ==
    [op |-> op, src |-> src, dst |-> dst, ns |-> ns, ea |-> ea,
     args |-> <<>>, errno |-> ""]
NoEv == Ev("", NoPath, NoPath, "", "")

(***************************************************************************)
(* Python values that travel through the error plumbing: a path string,    *)
(* an OSError (identified by the call that raised it), a tuple, a list,    *)
(* and a shutil.Error whose args[0] is a list.                             *)
(***************************************************************************)
VStr(path) == [t |-> "str", s |-> path, e |-> NoEv, l |-> <<>>]
VOSError(ev) == [t |-> "OSError", s |-> NoPath, e |-> ev, l |-> <<>>]
VTuple(l) == [t |-> "tuple", s |-> NoPath, e |-> NoEv, l |-> l]
VList(l) == [t |-> "list", s |-> NoPath, e |-> NoEv, l |-> l]
VError(l) == [t |-> "Error", s |-> NoPath, e |-> NoEv, l |-> l]

\* call_error_cb(*args): the error_cb(...) calls it makes, in order, each
\* given by its argument values
RECURSIVE call_error_cb(_)
call_error_cb(args) ==
    IF args = <<>> THEN <<>>
    ELSE LET arg == Head(args)
             here ==
                 IF arg.t = "Error" THEN call_error_cb(arg.l)
                 ELSE IF arg.t \in {"tuple", "list"}
                 THEN IF /\ Len(arg.l) = 3
                         /\ \A i \in 1..3 :
                                arg.l[i].t \notin {"tuple", "list", "Error"}
                      THEN <<arg.l>>
                      ELSE call_error_cb(arg.l)
                 ELSE <<>>
         IN here \o call_error_cb(Tail(args))

ErrorCbEvents(calls) ==
    [i \in 1..Len(calls) |->
        [Ev("error_cb", NoPath, NoPath, "", "") EXCEPT !.args = calls[i]]]

(***************************************************************************)
(* The extended attribute collaborator, bsd.extattr.                       *)
(***************************************************************************)
Namespaces == <<[name |-> "system", id |-> "EXTATTR_NAMESPACE_SYSTEM"],
                [name |-> "user", id |-> "EXTATTR_NAMESPACE_USER"]>>
NsIndex(id) == (CHOOSE i \in 1..Len(Namespaces) : Namespaces[i].id = id)
NsOf(id) == Namespaces[NsIndex(id)].name

\* bsd.extattr.get_namespace(): every namespace, or the named ones
get_namespace(all, names) ==
    SelectSeq(Namespaces, LAMBDA n : all \/ n.name \in names)

\* the node an extattr call on a source path works on
eanode(path, follow) == IF follow THEN snode(path) ELSE lnode(path)

\* bsd.extattr.list(path, namespace, follow)
extattr_list(path, id, follow) ==
    InOrder({t[2] : t \in {u \in eanode(path, follow).ea : u[1] = NsOf(id)}})

\* bsd.extattr.get(path, namespace, name, follow)
extattr_get(path, id, ea, follow) ==
    (CHOOSE t \in eanode(path, follow).ea : t[1] = NsOf(id) /\ t[2] = ea)[3]

\* bsd.extattr.set(path, namespace, {name: data}) on a node's attributes
extattr_set(eas, id, ea, data) ==
    {t \in eas : ~(t[1] = NsOf(id) /\ t[2] = ea)} \cup {<<NsOf(id), ea, data>>}

(***************************************************************************)
(* Options of one copytree invocation.                                     *)
(*   xattr: a bool, or a str / list naming namespaces                      *)
(*   xattr_filter: "None", or a callable that rejects the attribute "k2"   *)
(*   xattr_error_callback: "None", or a callable that always returns True  *)
(*     ("ignore") or always returns False ("raise")                        *)
(*   progress_callback, error_cb: supplied or not                          *)
(***************************************************************************)
XattrBool(b) == [t |-> "bool", b |-> b, names |-> {}]
XattrStr(n) == [t |-> "str", b |-> FALSE, names |-> {n}]

Options(symlinks, progress_callback, xattr, xattr_filter, xattr_error_callback, exclude, error_cb) ==
    [symlinks |-> symlinks, progress_callback |-> progress_callback,
     xattr |-> xattr, xattr_filter |-> xattr_filter,
     xattr_error_callback |-> xattr_error_callback,
     exclude |-> exclude, error_cb |-> error_cb]

\* the defaults of the signature, with symlinks given
Defaults(symlinks) ==
    Options(symlinks, FALSE, XattrBool(FALSE), "None", "None", {}, FALSE)

xattr_filter_result(srcname, ns_name, ea) == ea # "k2"
xattr_error_callback_result(cb) == cb = "ignore"

(***************************************************************************)
(* Attribute propagation, lines 126-172.  F is the set of calls the        *)
(* environment makes fail.  The accumulator holds the calls made (tr), the *)
(* calls that raised (fl), the attributes set on the destination (sets)    *)
(* and the OSError that left the block (raised, NoEv when none did).       *)
(***************************************************************************)
Acc0 == [tr |-> <<>>, fl |-> <<>>, sets |-> <<>>, raised |-> NoEv]

\* the except clauses of lines 140-147, 155-162 and 165-172; name is the
\* third argument handed to xattr_error_callback
OnXattrError(o, srcname, ns_name, name, e, acc) ==
    LET a == [acc EXCEPT !.tr = Append(@, e), !.fl = Append(@, e)]
    IN IF o.xattr_error_callback # "None"
       THEN LET cb == [Ev("xattr_error_callback", srcname, NoPath, ns_name, name)
                          EXCEPT !.args = <<VOSError(e)>>]
                b == [a EXCEPT !.tr = Append(@, cb)]
            IN IF ~xattr_error_callback_result(o.xattr_error_callback)
               THEN [b EXCEPT !.raised = e]
               ELSE b
       ELSE [a EXCEPT !.raised = e]

\* one pass of "for ea in ea_names", lines 150-172
CopyOneEA(o, srcname, dstname, ns, ea, F, acc) ==
    LET flt == Ev("xattr_filter", srcname, NoPath, ns.name, ea)
        get == Ev("extattr.get", srcname, NoPath, ns.name, ea)
        set == Ev("extattr.set", NoPath, dstname, ns.name, ea)
        a1 == IF o.xattr_filter # "None"
              THEN [acc EXCEPT !.tr = Append(@, flt)] ELSE acc
    IN IF o.xattr_filter # "None" /\ ~xattr_filter_result(srcname, ns.name, ea)
       THEN a1
       ELSE IF get \in F
       THEN OnXattrError(o, srcname, ns.name, None, get, a1)
       ELSE LET a2 == [a1 EXCEPT !.tr = Append(@, get)]
            IN IF set \in F
               THEN OnXattrError(o, srcname, ns.name, None, set, a2)
               ELSE [a2 EXCEPT
                       !.tr = Append(@, set),
                       !.sets = Append(@, <<ns.id, ea,
                                   extattr_get(srcname, ns.id, ea, o.symlinks)>>)]

RECURSIVE CopyEAs(_, _, _, _, _, _, _)
CopyEAs(o, srcname, dstname, ns, ea_names, F, acc) ==
    IF ea_names = <<>> \/ acc.raised # NoEv THEN acc
    ELSE CopyEAs(o, srcname, dstname, ns, Tail(ea_names), F,
                 CopyOneEA(o, srcname, dstname, ns, Head(ea_names), F, acc))

\* one pass of "for ns_name, ns_id in ea_namespaces.items()", lines 137-172
CopyNamespace(o, srcname, dstname, ns, F, acc) ==
    LET lst == Ev("extattr.list", srcname, NoPath, ns.name, "")
    IN IF lst \in F
       THEN OnXattrError(o, srcname, ns.name, None, lst, acc)
       ELSE CopyEAs(o, srcname, dstname, ns,
                    extattr_list(srcname, ns.id, o.symlinks), F,
                    [acc EXCEPT !.tr = Append(@, lst)])

RECURSIVE CopyNamespaces(_, _, _, _, _, _)
CopyNamespaces(o, srcname, dstname, nss, F, acc) ==
    IF nss = <<>> \/ acc.raised # NoEv THEN acc
    ELSE CopyNamespaces(o, srcname, dstname, Tail(nss), F,
                        CopyNamespace(o, srcname, dstname, Head(nss), F, acc))

\* lines 127-133
ea_namespaces(xattr) ==
    IF xattr.t = "bool" /\ xattr.b THEN get_namespace(TRUE, {})
    ELSE IF xattr.t \in {"str", "list"} THEN get_namespace(FALSE, xattr.names)
    ELSE <<>>

CopyXattrs(o, srcname, dstname, F) ==
    CopyNamespaces(o, srcname, dstname, ea_namespaces(o.xattr), F, Acc0)

(***************************************************************************)
(* The destination tree and the calls that change it.  A call fails when   *)
(* the tree makes it fail (Refused) or when the environment says so.       *)
(***************************************************************************)
exists(fs, path) == path.p \in DOMAIN fs
kindof(fs, path) == IF exists(fs, path) THEN fs[path.p].kind ELSE "none"
ParentIsDir(fs, path) ==
    path.p = <<>> \/ kindof(fs, dirname(path)) = "dir"
Put(fs, p, node) ==
    [x \in DOMAIN fs \cup {p} |-> IF x = p THEN node ELSE fs[x]]
Prefixes(p) == {SubSeq(p, 1, n) : n \in 0..Len(p)}

\* shutil.copy2(src, dst): into dst when dst is a directory
copy2_target(fs, src, dst) ==
    IF kindof(fs, dst) = "dir" THEN join(dst, basename(src)) ELSE dst
copy2_refused(fs, src, dst) ==
    LET t == copy2_target(fs, src, dst)
    IN ~ParentIsDir(fs, t) \/ kindof(fs, t) = "dir"
copy2(fs, src, dst) ==
    LET t == copy2_target(fs, src, dst)
    IN Put(fs, t.p, [FileNode(snode(src).content,
                              IF exists(fs, t) THEN fs[t.p].ea ELSE {})
                        EXCEPT !.stat = realpath(src.p)])

\* os.symlink(linkto, dst)
symlink_refused(fs, dst) == exists(fs, dst) \/ ~ParentIsDir(fs, dst)
\* symlink with its two arguments swapped
symlink_swapped(fs, linkto, dst) == Put(fs, dst.p, LinkNode(basename(dst), <<>>))
symlink(fs, linkto, dst) == Put(fs, dst.p, LinkNode(linkto, <<>>))

\* os.makedirs(dst): EEXIST when dst is there, ENOTDIR below a non-directory
makedirs_eexist(fs, dst) == exists(fs, dst)
makedirs_refused(fs, dst) ==
    \E q \in Prefixes(dst.p) : q \in DOMAIN fs /\ fs[q].kind # "dir"
makedirs(fs, dst) ==
    [x \in DOMAIN fs \cup Prefixes(dst.p) |->
        IF x \in DOMAIN fs THEN fs[x] ELSE DirNode]

\* shutil.copystat(src, dst); both paths are followed, and what a link at
\* dst leads to lies outside the modelled tree
copystat_refused(fs, dst) == ~exists(fs, dst)
copystat(fs, src, dst) ==
    IF kindof(fs, dst) = "link" THEN fs
    ELSE [fs EXCEPT ![dst.p].stat = realpath(src.p)]

\* bsd.extattr.set calls applied in order to the node at dst
RECURSIVE ApplySets(_, _, _)
ApplySets(fs, dst, sets) ==
    IF sets = <<>> THEN fs
    ELSE ApplySets([fs EXCEPT ![dst.p].ea =
                        extattr_set(@, Head(sets)[1], Head(sets)[2], Head(sets)[3])],
                   dst, Tail(sets))

(***************************************************************************)
(* One copytree invocation: its arguments and its locals.                  *)
(***************************************************************************)
Frame(src, dst, o, directory, names) ==
    [src |-> src, dst |-> dst, o |-> o, directory |-> directory,
     names |-> names, errors |-> <<>>]

VNone == [t |-> "None", s |-> NoPath, e |-> NoEv, l |-> <<>>]

\* what a group of calls did: the tree after them, the calls made, those
\* that raised, those among them the environment made fail, and the
\* exception that left the group (VNone when none did)
Outcome(fs, tr, fl, inj, exc) ==
    [fs |-> fs, tr |-> tr, fl |-> fl, inj |-> inj, exc |-> exc]

\* "names" of a source that is not walked as a directory is [src]; the
\* model writes the one entry as "." and never finds it in exclude
SingleEntry == "."

\* FilterNames with the exclusion test left out
FilterNames_keep_all(names, exclude) == names

\* line 105
FilterNames(names, exclude) ==
    SelectSeq(names, LAMBDA name : exclude = {} \/ name \notin exclude)

\* lines 99-101: whether the OSError of os.makedirs leaves the try statement
makedirs_raises(errno) == IF errno = "EEXIST" THEN FALSE ELSE FALSE

\* lines 88-105: classify src, list it, create dst.  frame is meaningful
\* when exc is VNone.
Enter(fs, src, dst, o, F) ==
    IF (o.symlinks /\ islink(src)) \/ isfile(src)
    THEN [out |-> Outcome(fs, <<>>, <<>>, {}, VNone),
          frame |-> Frame(src, dst, o, FALSE, <<SingleEntry>>)]
    ELSE LET ls == Ev("listdir", src, NoPath, "", "")
             mk == Ev("makedirs", NoPath, dst, "", "")
             frame == Frame(src, dst, o, TRUE,
                            FilterNames(listdir(src), o.exclude))
             errno == IF makedirs_eexist(fs, dst) THEN "EEXIST"
                      ELSE IF makedirs_refused(fs, dst) THEN "ENOTDIR"
                      ELSE IF mk \in F THEN "EACCES"
                      ELSE ""
             err == [mk EXCEPT !.errno = errno]
         IN IF ls \in F
            THEN [out |-> Outcome(fs, <<ls>>, <<ls>>, {ls}, VOSError(ls)),
                  frame |-> frame]
            ELSE IF errno = ""
            THEN [out |-> Outcome(makedirs(fs, dst), <<ls, mk>>, <<>>, {}, VNone),
                  frame |-> frame]
            ELSE [out |-> Outcome(fs, <<ls, mk>>, <<err>>,
                                  IF errno = "EACCES" THEN {mk} ELSE {},
                                  IF makedirs_raises(errno)
                                  THEN VOSError(err) ELSE VNone),
                  frame |-> frame]

\* lines 108-113
srcname_of(f, name) == IF f.directory THEN join(f.src, name) ELSE f.src
dstname_of(f, name) == IF f.directory THEN join(f.dst, name) ELSE f.dst

\* lines 116-118
SymlinkBody(fs, srcname, dstname, F) ==
    LET sl == Ev("symlink", srcname, dstname, "", "")
    IN IF symlink_refused(fs, dstname)
       THEN Outcome(fs, <<sl>>, <<sl>>, {}, VOSError(sl))
       ELSE IF sl \in F
       THEN Outcome(fs, <<sl>>, <<sl>>, {sl}, VOSError(sl))
       ELSE Outcome(symlink(fs, readlink(srcname), dstname), <<sl>>, <<>>, {}, VNone)

\* lines 122-172
FileBody(fs, o, srcname, dstname, F) ==
    LET pg == Ev("progress_callback", srcname, dstname, "", "")
        cp == Ev("copy2", srcname, dstname, "", "")
        tr0 == IF o.progress_callback THEN <<pg, cp>> ELSE <<cp>>
        xa == CopyXattrs(o, srcname, dstname, F)
    IN IF copy2_refused(fs, srcname, dstname)
       THEN Outcome(fs, tr0, <<cp>>, {}, VOSError(cp))
       ELSE IF cp \in F
       THEN Outcome(fs, tr0, <<cp>>, {cp}, VOSError(cp))
       ELSE Outcome(ApplySets(copy2(fs, srcname, dstname), dstname, xa.sets),
                    tr0 \o xa.tr, xa.fl, Range(xa.fl),
                    IF xa.raised = NoEv THEN VNone ELSE VOSError(xa.raised))

\* Except with line 179 written as line 194 is: extend in place of append
Except_extend(f, srcname, dstname, exc, p3) ==
    IF exc.t = "OSError" \/ (exc.t = "Error" /\ p3)
    THEN IF f.o.error_cb
         THEN [errors |-> f.errors,
               calls |-> call_error_cb(<<VStr(f.src), VStr(f.dst), exc>>)]
         ELSE [errors |-> f.errors \o <<VStr(srcname), VStr(dstname), exc>>,
               calls |-> <<>>]
    ELSE IF f.o.error_cb
         THEN [errors |-> f.errors,
               calls |-> call_error_cb(<<VStr(f.src), VStr(f.dst), VList(exc.l)>>)]
         ELSE [errors |-> f.errors \o exc.l, calls |-> <<>>]

\* the except clauses of lines 175-187 in frame f, for exception exc raised
\* while srcname was being copied to dstname: the frame's new error list and
\* the error_cb calls made
Except(f, srcname, dstname, exc, p3) ==
    IF exc.t = "OSError" \/ (exc.t = "Error" /\ p3)
    THEN IF f.o.error_cb
         THEN [errors |-> f.errors,
               calls |-> call_error_cb(<<VStr(f.src), VStr(f.dst), exc>>)]
         ELSE [errors |-> Append(f.errors,
                   VTuple(<<VStr(srcname), VStr(dstname), exc>>)),
               calls |-> <<>>]
    ELSE IF f.o.error_cb
         THEN [errors |-> f.errors,
               calls |-> call_error_cb(<<VStr(f.src), VStr(f.dst), VList(exc.l)>>)]
         ELSE [errors |-> f.errors \o exc.l, calls |-> <<>>]

\* lines 188-194
StatBody(fs, f, F) ==
    LET cs == Ev("copystat", f.src, f.dst, "", "")
        extend(inj) ==
            IF f.o.error_cb
            THEN [errors |-> f.errors,
                  calls |-> call_error_cb(<<VStr(f.src), VStr(f.dst), VOSError(cs)>>),
                  out |-> Outcome(fs, <<cs>>, <<cs>>, inj, VNone)]
            ELSE [errors |-> f.errors \o <<VStr(f.src), VStr(f.dst), VOSError(cs)>>,
                  calls |-> <<>>,
                  out |-> Outcome(fs, <<cs>>, <<cs>>, inj, VNone)]
    IN IF copystat_refused(fs, f.dst) THEN extend({})
       ELSE IF cs \in F THEN extend({cs})
       ELSE [errors |-> f.errors, calls |-> <<>>,
             out |-> Outcome(copystat(fs, f.src, f.dst), <<cs>>, <<>>, {}, VNone)]

(***************************************************************************)
(* The calls of one step that the environment may make fail.               *)
(***************************************************************************)
AttrNamesOf(srcname) == {t[2] : t \in snode(srcname).ea \cup lnode(srcname).ea}
FileCalls(srcname, dstname) ==
    {Ev("copy2", srcname, dstname, "", "")}
    \cup {Ev("extattr.list", srcname, NoPath, Namespaces[i].name, "") :
            i \in 1..Len(Namespaces)}
    \cup {Ev("extattr.get", srcname, NoPath, Namespaces[i].name, ea) :
            i \in 1..Len(Namespaces), ea \in AttrNamesOf(srcname)}
    \cup {Ev("extattr.set", NoPath, dstname, Namespaces[i].name, ea) :
            i \in 1..Len(Namespaces), ea \in AttrNamesOf(srcname)}
EnterCalls(src, dst) ==
    {Ev("listdir", src, NoPath, "", ""), Ev("makedirs", NoPath, dst, "", "")}

\* the subsets of S with at most k members
RECURSIVE UpTo(_, _)
UpTo(S, k) ==
    IF k = 0 THEN {{}}
    ELSE LET T == UpTo(S, k - 1) IN T \cup {t \cup {x} : t \in T, x \in S}

Faults(calls) == UpTo(calls, MaxFaults - injected)

\* the bookkeeping of a step: the tree, the calls made (cbs are the error_cb
\* calls that followed), the failures
Record(out, cbs) ==
    /\ dstfs' = out.fs
    /\ trace' = trace \o out.tr \o ErrorCbEvents(cbs)
    /\ failed' = failed \o out.fl
    /\ injected' = injected + Cardinality(out.inj)

Result(status, errors, exc) == [status |-> status, errors |-> errors, exc |-> exc]

Cur == stack[Len(stack)]
SetCur(f) == [stack EXCEPT ![Len(stack)] = f]
InLoop == stack # <<>> /\ Cur.names # <<>>

(***************************************************************************)
(* Init: before the call.  The caller picks the arguments; dst is absent   *)
(* or an empty directory.                                                  *)
(***************************************************************************)
\* src is a directory, a regular file or a link to one; a src that is none
\* of them (a device, a dangling link followed) leaves names unbound at
\* line 105 and is not modelled
TopSources == {<<>>, <<"a">>, <<"l">>}
XattrChoices == {XattrBool(FALSE), XattrBool(TRUE), XattrStr("user")}
ExcludeChoices == {{}, {"b", "d"}}
InitialTrees == {<<>>, <<>> :> DirNode}

Init ==
    /\ py3 = "unknown"
    /\ \E s \in TopSources, symlinks \in BOOLEAN, pc \in BOOLEAN,
          xattr \in XattrChoices, flt \in {"None", "skip"},
          xcb \in {"None", "ignore", "raise"}, exclude \in ExcludeChoices,
          ecb \in BOOLEAN :
          \* the attribute callbacks are not read unless xattr asks for a copy
          /\ xattr = XattrBool(FALSE) => flt = "None" /\ xcb = "None"
          /\ top = [src |-> SrcP(s), dst |-> DstP(<<>>),
                 o |-> Options(symlinks, pc, xattr, flt, xcb, exclude, ecb)]
    /\ stack = <<>>
    /\ dstfs \in InitialTrees
    /\ trace = <<>>
    /\ failed = <<>>
    /\ injected = 0
    /\ result = Result("init", <<>>, VNone)

\* the outermost call, lines 88-105
Call ==
    /\ result.status = "init"
    /\ \E F \in Faults(EnterCalls(top.src, top.dst)) :
          LET en == Enter(dstfs, top.src, top.dst, top.o, F)
          IN /\ F = en.out.inj
             /\ Record(en.out, <<>>)
             /\ IF en.out.exc = VNone
                THEN /\ stack' = <<en.frame>>
                     /\ result' = Result("running", <<>>, VNone)
                ELSE /\ stack' = <<>>
                     /\ result' = Result("OSError", <<>>, en.out.exc)
    /\ UNCHANGED <<py3, top>>

\* one pass of the loop over a symbolic link kept as a link, lines 116-118
CopyLink ==
    /\ InLoop
    /\ LET f == Cur
           srcname == srcname_of(f, Head(f.names))
           dstname == dstname_of(f, Head(f.names))
       IN /\ f.o.symlinks /\ islink(srcname)
          /\ \E F \in Faults({Ev("symlink", srcname, dstname, "", "")}) :
                LET out == SymlinkBody(dstfs, srcname, dstname, F)
                    ex == IF out.exc = VNone
                          THEN [errors |-> f.errors, calls |-> <<>>]
                          ELSE Except(f, srcname, dstname, out.exc, FALSE)
                IN /\ F = out.inj
                   /\ Record(out, ex.calls)
                   /\ stack' = SetCur([f EXCEPT !.names = Tail(@),
                                                !.errors = ex.errors])
    /\ UNCHANGED <<py3, top, result>>

\* one pass of the loop over a directory, lines 119-120, up to the start of
\* the callee's loop; the recursive call is given symlinks and nothing else
CopyDir ==
    /\ InLoop
    /\ LET f == Cur
           srcname == srcname_of(f, Head(f.names))
           dstname == dstname_of(f, Head(f.names))
       IN /\ ~(f.o.symlinks /\ islink(srcname))
          /\ isdir(srcname)
          /\ \E F \in Faults(EnterCalls(srcname, dstname)) :
                LET en == Enter(dstfs, srcname, dstname, Defaults(f.o.symlinks), F)
                    ex == Except(f, srcname, dstname, en.out.exc, FALSE)
                IN /\ F = en.out.inj
                   /\ IF en.out.exc = VNone
                      THEN /\ Record(en.out, <<>>)
                           /\ stack' = Append(stack, en.frame)
                      ELSE /\ Record(en.out, ex.calls)
                           /\ stack' = SetCur([f EXCEPT !.names = Tail(@),
                                                        !.errors = ex.errors])
    /\ UNCHANGED <<py3, top, result>>

\* one pass of the loop over anything else, lines 121-172
CopyFile ==
    /\ InLoop
    /\ LET f == Cur
           srcname == srcname_of(f, Head(f.names))
           dstname == dstname_of(f, Head(f.names))
       IN /\ ~(f.o.symlinks /\ islink(srcname))
          /\ ~isdir(srcname)
          /\ \E F \in Faults(FileCalls(srcname, dstname)) :
                LET out == FileBody(dstfs, f.o, srcname, dstname, F)
                    ex == IF out.exc = VNone
                          THEN [errors |-> f.errors, calls |-> <<>>]
                          ELSE Except(f, srcname, dstname, out.exc, FALSE)
                IN /\ F = out.inj
                   /\ Record(out, ex.calls)
                   /\ stack' = SetCur([f EXCEPT !.names = Tail(@),
                                                !.errors = ex.errors])
    /\ UNCHANGED <<py3, top, result>>

\* the interpreter's answer to issubclass(shutil.Error, OSError)
Interpreters == IF py3 = "unknown" THEN BOOLEAN ELSE {py3 = "yes"}

\* after the loop, lines 188-197: copystat, then return or raise; a raise
\* out of a recursive call lands in the caller's except clauses
Return ==
    /\ stack # <<>>
    /\ Cur.names = <<>>
    /\ LET f == Cur
       IN \E F \in Faults({Ev("copystat", f.src, f.dst, "", "")}) :
             LET st == StatBody(dstfs, f, F)
                 raises == st.errors # <<>> /\ ~f.o.error_cb
             IN /\ F = st.out.inj
                /\ IF Len(stack) = 1
                   THEN /\ Record(st.out, st.calls)
                        /\ stack' = <<>>
                        /\ result' = IF raises
                                     THEN Result("Error", st.errors, VError(st.errors))
                                     ELSE Result("returned", <<>>, VNone)
                        /\ UNCHANGED py3
                   ELSE LET caller == stack[Len(stack) - 1]
                        IN IF raises
                           THEN \E p3 \in Interpreters :
                                  LET ex == Except(caller, f.src, f.dst,
                                                   VError(st.errors), p3)
                                  IN /\ Record(st.out, st.calls \o ex.calls)
                                     /\ stack' = [Front(stack) EXCEPT ![Len(stack) - 1] =
                                            [caller EXCEPT !.names = Tail(@),
                                                           !.errors = ex.errors]]
                                     /\ py3' = IF p3 THEN "yes" ELSE "no"
                                     /\ UNCHANGED result
                           ELSE /\ Record(st.out, st.calls)
                                /\ stack' = [Front(stack) EXCEPT ![Len(stack) - 1] =
                                                [caller EXCEPT !.names = Tail(@)]]
                                /\ UNCHANGED <<py3, result>>
    /\ UNCHANGED top

Next == Call \/ CopyLink \/ CopyDir \/ CopyFile \/ Return

Spec == Init /\ [][Next]_vars

Done == result.status \in {"returned", "Error", "OSError"}

(***************************************************************************)
(* Vocabulary of the properties.                                           *)
(***************************************************************************)
TopIsDir == ~(top.o.symlinks /\ islink(top.src)) /\ isdir(top.src)
Collecting == ~top.o.error_cb
AttrOps == {"extattr.list", "extattr.get", "extattr.set"}

\* the path a call is about
PathOf(e) == IF e.src # NoPath THEN e.src.p ELSE e.dst.p
\* the call is about name, an immediate child of the outermost source, or
\* about something below it
Mentions(e, name) ==
    \/ e.src # NoPath /\ e.src.p # <<>> /\ e.src.p[1] = name
    \/ e.dst # NoPath /\ e.dst.p # <<>> /\ e.dst.p[1] = name

\* the immediate children of the outermost source that the loop copies as
\* files: not directories, not links kept as links
ChildFiles ==
    {n \in Range(listdir(top.src)) :
        /\ ~isdir(join(top.src, n))
        /\ ~(top.o.symlinks /\ islink(join(top.src, n)))}

\* a failure that leaves the try block of the loop or of copystat: every
\* failure but a makedirs one (swallowed at lines 99-101) and an attribute
\* one that xattr_error_callback told the walk to ignore
Escapes(e) ==
    /\ e.op # "makedirs"
    /\ e.op \in AttrOps => top.o.xattr_error_callback # "ignore"

\* the record (srcName, dstName, cause) of a failure of the walk of a
\* directory source, where source and destination paths run in parallel
RecordOf(e) ==
    VTuple(<<VStr(SrcP(PathOf(e))), VStr(DstP(PathOf(e))), VOSError(e)>>)

Indices(seq, Test(_)) == {i \in 1..Len(seq) : Test(seq[i])}

\* the failures of the run, apart from os.makedirs finding dst already there
Failures ==
    SelectSeq(failed, LAMBDA e : ~(e.op = "makedirs" /\ e.errno = "EEXIST"))

\* whether a value names the immediate child name of the outermost source
RECURSIVE ValueMentions(_, _)
ValueMentions(v, name) ==
    \/ v.t = "str" /\ v.s.p # <<>> /\ v.s.p[1] = name
    \/ v.t = "OSError" /\ Mentions(v.e, name)
    \/ \E i \in 1..Len(v.l) : ValueMentions(v.l[i], name)

\* every error list there is: the frames' and the raised one
ErrorLists == {stack[i].errors : i \in 1..Len(stack)} \cup {result.errors}

\* the destination holds a regular file at p with the content of the source
\* file that src leads to
CopiedTo(src, p) ==
    /\ p \in DOMAIN dstfs
    /\ dstfs[p].kind = "file"
    /\ dstfs[p].content = snode(src).content

\* the case C1 is about: one failure in the run, of an immediate child file
C1_OneFailure ==
    /\ Done /\ TopIsDir /\ Collecting
    /\ Len(Failures) = 1
    /\ Failures[1].op \in {"copy2"} \cup AttrOps
    /\ Escapes(Failures[1])
    /\ Len(PathOf(Failures[1])) = 1

(***************************************************************************)
(* C1.  Collecting mode, directory source: when exactly one call fails in  *)
(* the whole run and it is the copy of an immediate child file (copy2, or  *)
(* an attribute call whose OSError is not ignored), every other child file *)
(* is in dst with the source content and copytree raises shutil.Error with *)
(* a list of exactly one record, (srcname, dstname, why) of that file.     *)
(***************************************************************************)
C1_ErrorIsolation ==
    C1_OneFailure =>
        /\ result.status = "Error"
        /\ result.errors = <<RecordOf(Failures[1])>>
        /\ \A n \in ChildFiles \ top.o.exclude :
              (Failures[1].op = "copy2" /\ PathOf(Failures[1]) = <<n>>)
              \/ CopiedTo(join(top.src, n), <<n>>)

\* C1 happens: the copy of one child file failed, a sibling is in dst, and
\* shutil.Error was raised with one element
C1_Witness ==
    /\ C1_OneFailure
    /\ Failures[1].op = "copy2"
    /\ result.status = "Error"
    /\ Len(result.errors) = 1
    /\ \E n \in ChildFiles : PathOf(Failures[1]) # <<n>> /\ <<n>> \in DOMAIN dstfs

(***************************************************************************)
(* C4.  Directory source, dst initially empty: a name in exclude that is   *)
(* an immediate child of src is skipped entirely.  At every point of the   *)
(* run nothing of that name is under dst, no call (progress_callback,      *)
(* extattr list/get/set or any other) is about it, no failure and no error *)
(* record is about it; and when the walk has ended every other child has   *)
(* been processed.                                                         *)
(***************************************************************************)
C4_Exclusion ==
    TopIsDir =>
        /\ \A n \in top.o.exclude \cap Range(listdir(top.src)) :
              /\ <<n>> \notin DOMAIN dstfs
              /\ \A i \in 1..Len(trace) :
                    /\ ~Mentions(trace[i], n)
                    /\ \A k \in 1..Len(trace[i].args) :
                          ~ValueMentions(trace[i].args[k], n)
              /\ \A i \in 1..Len(failed) : ~Mentions(failed[i], n)
              /\ \A l \in ErrorLists : \A k \in 1..Len(l) : ~ValueMentions(l[k], n)
        /\ result.status \in {"returned", "Error"} =>
              \A n \in Range(listdir(top.src)) \ top.o.exclude :
                  \E i \in 1..Len(trace) : Mentions(trace[i], n)

\* C4 happens: "b" is excluded and absent from dst while "a" was copied,
\* with progress and attribute calls being made
C4_Witness ==
    /\ Done /\ TopIsDir
    /\ "b" \in top.o.exclude
    /\ top.o.progress_callback
    /\ top.o.xattr = XattrBool(TRUE)
    /\ <<"a">> \in DOMAIN dstfs
    /\ <<"b">> \notin DOMAIN dstfs

\* the links of the source tree; whether the call trace[i] did not raise
SourceLinks == {p \in DOMAIN SrcTree : SrcTree[p].kind = "link"}
Succeeded(i) == \A j \in 1..Len(failed) : failed[j] # trace[i]

ErrorCbCalls(why) ==
    {i \in 1..Len(trace) :
        /\ trace[i].op = "error_cb"
        /\ Len(trace[i].args) = 3
        /\ trace[i].args[3] = why}

(***************************************************************************)
(* C2.  Callback mode, directory source: when the call has ended, every    *)
(* failure that collecting mode would have put on the error list (every    *)
(* failure that escapes its try block), the copy of an immediate child     *)
(* file included, has been handed to error_cb in exactly one call.         *)
(***************************************************************************)
C2_CallbackReportsEveryFailure ==
    (Done /\ TopIsDir /\ top.o.error_cb /\ result.status # "OSError") =>
        \A i \in 1..Len(failed) :
            Escapes(failed[i]) =>
                Cardinality(ErrorCbCalls(VOSError(failed[i]))) = 1

\* the failure happened inside a recursive call
InSubCopy(e) ==
    \/ Len(PathOf(e)) >= 2
    \/ e.op = "copystat" /\ Len(PathOf(e)) >= 1

(***************************************************************************)
(* C3.  Callback mode, directory source: when the call has ended, every    *)
(* failure inside a recursive call (a file copy, a link, a listing below   *)
(* the first level, or the copystat that ends a recursive call) has been   *)
(* handed to error_cb exactly once, as (src, dst, cause) of that failure;  *)
(* and error_cb was never given a tuple, a list or a shutil.Error.         *)
(***************************************************************************)
C3_CallbackFlattening ==
    (Done /\ TopIsDir /\ top.o.error_cb) =>
        /\ \A i \in 1..Len(failed) :
              (Escapes(failed[i]) /\ InSubCopy(failed[i])) =>
                  /\ Cardinality(ErrorCbCalls(VOSError(failed[i]))) = 1
                  /\ \A j \in ErrorCbCalls(VOSError(failed[i])) :
                        VTuple(trace[j].args) = RecordOf(failed[i])
        /\ \A j \in 1..Len(trace) :
              trace[j].op = "error_cb" =>
                  \A k \in 1..Len(trace[j].args) :
                      trace[j].args[k].t \notin {"tuple", "list", "Error"}

(***************************************************************************)
(* C6.  With xattr=True, no filter and no failure at all, when the call    *)
(* has ended every regular file of the source that copy2 copied, at any    *)
(* depth, has at its destination exactly the source file's attributes,     *)
(* with the same values.                                                   *)
(***************************************************************************)
C6_AttributeRoundTrip ==
    (/\ Done /\ TopIsDir
     /\ top.o.xattr = XattrBool(TRUE)
     /\ top.o.xattr_filter = "None"
     /\ Failures = <<>>) =>
        \A i \in 1..Len(trace) :
            (trace[i].op = "copy2" /\ ~islink(trace[i].src)) =>
                dstfs[trace[i].dst.p].ea = snode(trace[i].src).ea

(***************************************************************************)
(* C7.  With progress_callback supplied: every copy2 call, at any depth,   *)
(* is preceded by exactly one progress_callback call with the same         *)
(* (srcname, dstname), and every progress_callback call is about a path    *)
(* that is neither a directory nor a link kept as a link.                  *)
(***************************************************************************)
C7_ProgressOncePerFile ==
    top.o.progress_callback =>
        \A i \in 1..Len(trace) :
            /\ trace[i].op = "copy2" =>
                  /\ Cardinality({j \in 1..Len(trace) :
                        /\ trace[j].op = "progress_callback"
                        /\ trace[j].src = trace[i].src
                        /\ trace[j].dst = trace[i].dst}) = 1
                  /\ \E j \in 1..(i - 1) :
                        /\ trace[j].op = "progress_callback"
                        /\ trace[j].src = trace[i].src
            /\ trace[i].op = "progress_callback" =>
                  /\ ~isdir(trace[i].src)
                  /\ ~(top.o.symlinks /\ islink(trace[i].src))

(***************************************************************************)
(* C8.  xattr_error_callback is given None as the attribute name exactly   *)
(* when the failed call is extattr.list; for a failed extattr.get or       *)
(* extattr.set it is given the name of that attribute.  And when the       *)
(* callback says to go on, the attributes after the failed one are still   *)
(* tried: every attribute the filter lets through has its extattr.get.     *)
(***************************************************************************)
C8_AttributeErrorCallbackArguments ==
    /\ \A i \in 1..Len(trace) :
          trace[i].op = "xattr_error_callback" =>
              LET e == trace[i].args[1].e
              IN /\ (trace[i].ea = None) <=> (e.op = "extattr.list")
                 /\ e.op \in {"extattr.get", "extattr.set"} => trace[i].ea = e.ea
    /\ (Done /\ top.o.xattr_error_callback = "ignore") =>
          \A i \in 1..Len(trace) :
              (trace[i].op = "extattr.list" /\ Succeeded(i)) =>
                  \A ea \in Range(extattr_list(trace[i].src,
                                    Namespaces[CHOOSE k \in 1..Len(Namespaces) :
                                        Namespaces[k].name = trace[i].ns].id,
                                    top.o.symlinks)) :
                      (top.o.xattr_filter = "None"
                         \/ xattr_filter_result(trace[i].src, trace[i].ns, ea)) =>
                          \E j \in 1..Len(trace) :
                              /\ trace[j].op = "extattr.get"
                              /\ trace[j].src = trace[i].src
                              /\ trace[j].ns = trace[i].ns
                              /\ trace[j].ea = ea

\* path p lies below path q
IsBelow(p, q) == Len(p) > Len(q) /\ SubSeq(p, 1, Len(q)) = q

(***************************************************************************)
(* C9.  When os.makedirs(dst) fails with an errno other than EEXIST, the   *)
(* invocation ends there: no call is made about anything below that dst,   *)
(* and no copystat onto that dst.                                          *)
(***************************************************************************)
C9_StructuralErrorIsFatal ==
    \A i \in 1..Len(failed) :
        (failed[i].op = "makedirs" /\ failed[i].errno # "EEXIST") =>
            \A j \in 1..Len(trace) :
                /\ ~(trace[j].op = "copystat" /\ trace[j].dst = failed[i].dst)
                /\ ~(trace[j].dst # NoPath /\ IsBelow(trace[j].dst.p, failed[i].dst.p))

\* v is a triple (path, path, OSError)
IsRecord(v) ==
    /\ v.t = "tuple"
    /\ Len(v.l) = 3
    /\ v.l[1].t = "str" /\ v.l[2].t = "str" /\ v.l[3].t = "OSError"

(***************************************************************************)
(* C10.  Collecting mode: at every point of the walk every element of      *)
(* every error list is one (srcPath, dstPath, cause) triple whose cause is *)
(* an OSError, and the list raised at the end has one element per failure  *)
(* that escaped its try block.                                             *)
(***************************************************************************)
C10_FlatListOfRecords ==
    (TopIsDir /\ Collecting) =>
        /\ \A l \in ErrorLists : \A k \in 1..Len(l) : IsRecord(l[k])
        /\ result.status = "Error" =>
              Len(result.errors) = Cardinality(Indices(failed, Escapes))

====
